---- MODULE Spec2Model ----
(***************************************************************************)
(* A model of indra_db_lite/api.py: the TextContent collection (built     *)
(* from rows, merged by flatten, filtered and flattened in place by       *)
(* to_plaintexts), the paragraph filter _filter_paragraphs with the       *)
(* regular expression it builds, and the connection / cursor lifecycle    *)
(* of the lookup functions.                                               *)
(*                                                                         *)
(* Python values are tagged records [t, v]: t is the runtime type and v   *)
(* the payload.  A str is the sequence of its characters, a list the      *)
(* sequence of its items; None and int carry no payload.                  *)
(***************************************************************************)
EXTENDS Integers, Sequences, FiniteSets, TLC

VARIABLES
    \* ---- TextContent (Spec) ----
    pc,          \* "init": inside __init__'s row loop; "built": constructed
    fulltexts,   \* self.fulltexts : text_ref_id -> value
    abstracts,   \* self.abstracts
    titles,      \* self.titles
    processed,   \* self.processed
    call,        \* the last step: a row consumed by __init__ (ret is the row),
                 \* __init__ returning, or a method call and what it returned
    seen,        \* history: per (text_ref_id, text_type) pair, the number of
                 \* rows __init__ consumed with it
    nfaults,     \* history: the method calls that have raised
    \* ---- _filter_paragraphs (SpecFilter) ----
    fp_paragraphs, fp_contains, fp_result,
    \* ---- lookup functions (SpecLookup) ----
    lk_fn, lk_pc, lk_conn, lk_cur, lk_execs, lk_avail, lk_fetched,
    lk_exc, lk_thrown, lk_closed, lk_result

collVars == <<pc, fulltexts, abstracts, titles, processed, call,
              seen, nfaults>>
fpVars == <<fp_paragraphs, fp_contains, fp_result>>
lkVars == <<lk_fn, lk_pc, lk_conn, lk_cur, lk_execs, lk_avail, lk_fetched,
            lk_exc, lk_thrown, lk_closed, lk_result>>
vars == <<collVars, fpVars, lkVars>>

----------------------------------------------------------------------------
(* Bounds *)

MaxRows == 3        \* rows fed to __init__
MaxParLen == 3      \* characters of a paragraph drawn for _filter_paragraphs
MaxToks == 2        \* tokens of a collection drawn for _filter_paragraphs
MaxAvail == 2       \* rows the store holds for a lookup
MaxFaults == 2      \* to_plaintexts calls that raise on one collection

----------------------------------------------------------------------------
(* Python values *)

None == [t |-> "None", v |-> <<>>]
Int7 == [t |-> "int", v |-> <<>>]
Str(s) == [t |-> "str", v |-> s]
List(xs) == [t |-> "list", v |-> xs]
TypeError == [t |-> "TypeError", v |-> <<>>]

\* \w of a str pattern: letters, digits and the underscore
WordChars == {"a", "b", "A", "B", "1", "_"}
IsWord(c) == c \in WordChars

\* Iterating a value: a list yields its items, a str its characters as
\* one-character strs.
Iter(x) ==
    IF x.t = "str" THEN [i \in 1..Len(x.v) |-> Str(<<x.v[i]>>)] ELSE x.v

\* len(x)
PyLen(x) == Len(x.v)

----------------------------------------------------------------------------
(* The regular expression of _filter_paragraphs *)

\* re.escape: a backslash before every character that is not a word character
ReEscape(s) ==
    LET RECURSIVE esc(_)
        esc(i) == IF i > Len(s) THEN <<>>
                  ELSE (IF IsWord(s[i]) THEN <<s[i]>> ELSE <<"\\", s[i]>>)
                       \o esc(i + 1)
    IN esc(1)

\* The atoms the regex compiler reads from the characters put in place of %s:
\* backslash-c is the literal c, an unescaped dot is any character but a
\* newline, any other character is itself.
ParseAtoms(cs) ==
    LET RECURSIVE parse(_)
        parse(i) ==
            IF i > Len(cs) THEN <<>>
            ELSE IF cs[i] = "\\" /\ i < Len(cs)
                 THEN <<[k |-> "lit", c |-> cs[i + 1]]>> \o parse(i + 2)
            ELSE IF cs[i] = "."
                 THEN <<[k |-> "any", c |-> "."]>> \o parse(i + 1)
            ELSE <<[k |-> "lit", c |-> cs[i]]>> \o parse(i + 1)
    IN parse(1)

\* (^|[^\w])  and  ([^\w]|$)
PreGroup == [k |-> "pre", c |-> ""]
PostGroup == [k |-> "post", c |-> ""]

\* NoEscape: the token is put into the pattern as it is
AlternativeNoEscape(shortform) ==
    <<PreGroup>> \o ParseAtoms(shortform) \o <<PostGroup>>

\* r'(^|[^\w])%s([^\w]|$)' % re.escape(shortform)
Alternative(shortform) ==
    <<PreGroup>> \o ParseAtoms(ReEscape(shortform)) \o <<PostGroup>>

\* '|'.join(alternatives): the pattern as the sequence of its alternatives.
\* Joining no alternative at all gives '', the pattern of one empty alternative.
JoinAlternatives(alts) == IF alts = <<>> THEN << <<>> >> ELSE alts

\* The pattern built at lines 42-48.
BuildPattern(contains) ==
    IF contains.t = "None" THEN << <<>> >>
    ELSE LET toks == IF contains.t = "str" THEN <<contains>> ELSE contains.v
         IN JoinAlternatives([i \in 1..Len(toks) |-> Alternative(toks[i].v)])

\* $ (no MULTILINE): at the end, or just before a newline that ends the string
AtDollar(s, pos) ==
    \/ pos = Len(s)
    \/ pos = Len(s) - 1 /\ s[Len(s)] = "\n"

\* Whether atoms[i..] match s from offset pos (pos characters already consumed)
RECURSIVE MatchAt(_, _, _, _)
MatchAt(atoms, i, s, pos) ==
    IF i > Len(atoms) THEN TRUE
    ELSE LET a == atoms[i] IN
         CASE a.k = "lit" ->
                pos < Len(s) /\ s[pos + 1] = a.c /\ MatchAt(atoms, i + 1, s, pos + 1)
           [] a.k = "any" ->
                pos < Len(s) /\ s[pos + 1] # "\n" /\ MatchAt(atoms, i + 1, s, pos + 1)
           [] a.k = "pre" ->
                \/ pos = 0 /\ MatchAt(atoms, i + 1, s, pos)
                \/ pos < Len(s) /\ ~IsWord(s[pos + 1])
                                /\ MatchAt(atoms, i + 1, s, pos + 1)
           [] a.k = "post" ->
                \/ pos < Len(s) /\ ~IsWord(s[pos + 1])
                                /\ MatchAt(atoms, i + 1, s, pos + 1)
                \/ AtDollar(s, pos) /\ MatchAt(atoms, i + 1, s, pos)

\* re.search(pattern, s) for a str s: some alternative matches from some offset
ReSearch(pattern, s) ==
    \E start \in 0..Len(s) : \E k \in 1..Len(pattern) :
        MatchAt(pattern[k], 1, s, start)

----------------------------------------------------------------------------
(* _filter_paragraphs *)

\* '\n'.join(ps)
RECURSIVE JoinNewline(_)
JoinNewline(ps) ==
    IF ps = <<>> THEN <<>>
    ELSE IF Len(ps) = 1 THEN ps[1]
    ELSE ps[1] \o <<"\n">> \o JoinNewline(Tail(ps))

\* NoTrailingNewline: the join without the '\n' appended
JoinedNoTrailingNewline(ps) == JoinNewline(ps)

\* '\n'.join(paragraphs) + '\n'
Joined(ps) == JoinNewline(ps) \o <<"\n">>

\* Lines 42-50.  re.search raises TypeError on an item that is not a str, and
\* the comprehension reaches every item, so the call raises as soon as one
\* item is not a str; otherwise the kept items are joined.
FilterParagraphs(paragraphs, contains) ==
    LET pattern == BuildPattern(contains)
        items == Iter(paragraphs)
    IN IF \E i \in 1..Len(items) : items[i].t # "str" THEN TypeError
       ELSE LET kept == SelectSeq(items, LAMBDA p : ReSearch(pattern, p.v))
            IN Str(Joined([i \in 1..Len(kept) |-> kept[i].v]))

----------------------------------------------------------------------------
(* TextContent *)

Ids == {1, 2}
KnownTypes == {"fulltext", "abstract", "title"}
TextTypes == KnownTypes \cup {"figure"}

\* The serialized contents the rows carry, and json.loads of each
JsonTexts == {"[\"a b\", \"ab\"]", "[\"b\"]", "[\"\"]", "[7]"}
JsonLoads(text) ==
    CASE text = "[\"a b\", \"ab\"]" -> List(<<Str(<<"a", " ", "b">>), Str(<<"a", "b">>)>>)
      [] text = "[\"b\"]" -> List(<<Str(<<"b">>)>>)
      [] text = "[\"\"]" -> List(<<Str(<<>>)>>)
      [] text = "[7]" -> List(<<Int7>>)

\* The contains arguments the callers pass
ContainsArgs ==
    { None,
      Str(<<"a">>),
      List(<<>>),
      List(<<Str(<<"A">>)>>),
      List(<<Str(<<"b">>), Str(<<"a", "b">>)>>) }

EmptyDict == [d \in {} |-> None]

\* d[key] = value
DictSet(d, key, value) ==
    [k \in DOMAIN d \cup {key} |-> IF k = key THEN value ELSE d[k]]

\* KeepFirst: an existing entry is kept
DictSetDefault(d, key, value) ==
    [k \in DOMAIN d \cup {key} |-> IF k \in DOMAIN d THEN d[k] ELSE value]

\* The store of one row into the mapping of its type (lines 66, 68, 70)
StoreRow(d, key, value) == DictSet(d, key, value)

\* d.update(other)
DictUpdate(d, other) ==
    [k \in DOMAIN d \cup DOMAIN other |-> IF k \in DOMAIN other THEN other[k] ELSE d[k]]

\* History of the rows consumed
Pairs == Ids \X TextTypes
NoRows == [p \in Pairs |-> 0]

RECURSIVE SumOver(_, _)
SumOver(S, f) ==
    IF S = {} THEN 0
    ELSE LET x == CHOOSE y \in S : TRUE IN f[x] + SumOver(S \ {x}, f)

\* Rows consumed with a pair among P, and those of them that came after
\* another row with the same pair
RowsOf(h, P) == SumOver(P, [p \in P |-> h[p]])
CollisionsOf(h, P) == SumOver(P, [p \in P |-> IF h[p] > 0 THEN h[p] - 1 ELSE 0])
TotalRows(h) == RowsOf(h, Pairs)

NoCall == [name |-> "none", contains |-> None, outcome |-> "return", ret |-> None]

\* One iteration of __init__'s loop over content_rows (lines 63-70)
AddRow(text_ref_id, text_type, content) ==
    /\ pc = "init"
    /\ TotalRows(seen) < MaxRows
    /\ LET value == JsonLoads(content) IN
       /\ fulltexts' = IF text_type = "fulltext"
                       THEN StoreRow(fulltexts, text_ref_id, value) ELSE fulltexts
       /\ abstracts' = IF text_type = "abstract"
                       THEN StoreRow(abstracts, text_ref_id, value) ELSE abstracts
       /\ titles' = IF text_type = "title"
                    THEN StoreRow(titles, text_ref_id, value) ELSE titles
    /\ seen' = [seen EXCEPT ![<<text_ref_id, text_type>>] = @ + 1]
    /\ call' = [name |-> "row", contains |-> None, outcome |-> "return",
                ret |-> <<text_ref_id, text_type, content>>]
    /\ UNCHANGED <<pc, processed, nfaults, fpVars, lkVars>>

\* content_rows is exhausted: __init__ returns
Built ==
    /\ pc = "init"
    /\ pc' = "built"
    /\ call' = [name |-> "__init__", contains |-> None, outcome |-> "return",
                ret |-> None]
    /\ UNCHANGED <<fulltexts, abstracts, titles, processed,
                   seen, nfaults, fpVars, lkVars>>

\* len(self.fulltexts) + len(self.abstracts) + len(self.titles)
LenValue(f, a, t) == Cardinality(DOMAIN f) + Cardinality(DOMAIN a) + Cardinality(DOMAIN t)

\* __len__ (lines 72-73)
DunderLen ==
    /\ pc = "built"
    /\ call' = [name |-> "__len__", contains |-> None, outcome |-> "return",
                ret |-> LenValue(fulltexts, abstracts, titles)]
    /\ UNCHANGED <<pc, fulltexts, abstracts, titles, processed,
                   seen, nfaults, fpVars, lkVars>>

\* TitlesFirst: the merge in the opposite order
FlattenValueReversed(f, a, t) == DictUpdate(DictUpdate(DictUpdate(EmptyDict, t), a), f)

\* result = {}; result.update(fulltexts); .update(abstracts); .update(titles)
FlattenValue(f, a, t) == DictUpdate(DictUpdate(DictUpdate(EmptyDict, f), a), t)

\* flatten (lines 75-84)
Flatten ==
    /\ pc = "built"
    /\ call' = [name |-> "flatten", contains |-> None, outcome |-> "return",
                ret |-> FlattenValue(fulltexts, abstracts, titles)]
    /\ UNCHANGED <<pc, fulltexts, abstracts, titles, processed,
                   seen, nfaults, fpVars, lkVars>>

\* {id: _filter_paragraphs(paragraphs, contains) for id, paragraphs in d.items()}
FilterAll(d, contains) == [k \in DOMAIN d |-> FilterParagraphs(d[k], contains)]

\* The comprehension raises when one of its calls does
Raises(fd) == \E k \in DOMAIN fd : fd[k].t = "TypeError"

\* KeepNonEmpty: the threshold one lower
KeepLongerThan0(fd) ==
    LET keys == {k \in DOMAIN fd : PyLen(fd[k]) > 0} IN [k \in keys |-> fd[k]]

\* {id: text for id, text in fd.items() if len(text) > 1}
KeepLongerThan1(fd) ==
    LET keys == {k \in DOMAIN fd : PyLen(fd[k]) > 1} IN [k \in keys |-> fd[k]]

\* NoGuard: the body runs whatever the flag says
AlreadyProcessedNever(flag) == FALSE

\* if self.processed: return   (line 87)
AlreadyProcessed(flag) == flag

\* FlagForgotten: the flag is left as it was
ProcessedLeftFalse == FALSE

\* self.processed = True   (line 113)
ProcessedAfterFlatten == TRUE

\* to_plaintexts (lines 86-113).  The three mappings are filtered and assigned
\* one after the other; a TypeError raised while one is filtered leaves the
\* earlier ones assigned, the later ones and the flag as they were.
ToPlaintexts(contains) ==
    /\ pc = "built"
    /\ nfaults < MaxFaults
    /\ LET ff == FilterAll(fulltexts, contains)
           fa == FilterAll(abstracts, contains)
           ft == FilterAll(titles, contains)
           returns == [name |-> "to_plaintexts", contains |-> contains,
                       outcome |-> "return", ret |-> None]
           raises == [name |-> "to_plaintexts", contains |-> contains,
                      outcome |-> "raise", ret |-> TypeError]
       IN IF AlreadyProcessed(processed)
          THEN /\ call' = returns
               /\ UNCHANGED <<fulltexts, abstracts, titles, processed, nfaults>>
          ELSE IF Raises(ff)
          THEN /\ call' = raises
               /\ nfaults' = nfaults + 1
               /\ UNCHANGED <<fulltexts, abstracts, titles, processed>>
          ELSE IF Raises(fa)
          THEN /\ fulltexts' = KeepLongerThan1(ff)
               /\ call' = raises
               /\ nfaults' = nfaults + 1
               /\ UNCHANGED <<abstracts, titles, processed>>
          ELSE IF Raises(ft)
          THEN /\ fulltexts' = KeepLongerThan1(ff)
               /\ abstracts' = KeepLongerThan1(fa)
               /\ call' = raises
               /\ nfaults' = nfaults + 1
               /\ UNCHANGED <<titles, processed>>
          ELSE /\ fulltexts' = KeepLongerThan1(ff)
               /\ abstracts' = KeepLongerThan1(fa)
               /\ titles' = KeepLongerThan1(ft)
               /\ processed' = ProcessedAfterFlatten
               /\ call' = returns
               /\ UNCHANGED nfaults
    /\ UNCHANGED <<pc, seen, fpVars, lkVars>>

FpIdle ==
    /\ fp_paragraphs = List(<<>>)
    /\ fp_contains = None
    /\ fp_result = None

LkIdle ==
    /\ lk_fn = "none"
    /\ lk_pc = "idle"
    /\ lk_conn = "none"
    /\ lk_cur = "none"
    /\ lk_execs = 0
    /\ lk_avail = 0
    /\ lk_fetched = 0
    /\ lk_exc = "none"
    /\ lk_thrown = "none"
    /\ lk_closed = <<>>
    /\ lk_result = "none"

CollIdle ==
    /\ pc = "idle"
    /\ fulltexts = EmptyDict
    /\ abstracts = EmptyDict
    /\ titles = EmptyDict
    /\ processed = FALSE
    /\ call = NoCall
    /\ seen = NoRows
    /\ nfaults = 0

\* __init__ before its loop (lines 59-62)
Init ==
    /\ pc = "init"
    /\ fulltexts = EmptyDict
    /\ abstracts = EmptyDict
    /\ titles = EmptyDict
    /\ processed = FALSE
    /\ call = NoCall
    /\ seen = NoRows
    /\ nfaults = 0
    /\ FpIdle
    /\ LkIdle

Next ==
    \/ \E id \in Ids, ty \in TextTypes, c \in JsonTexts : AddRow(id, ty, c)
    \/ Built
    \/ DunderLen
    \/ Flatten
    \/ \E c \in ContainsArgs : ToPlaintexts(c)

Spec == Init /\ [][Next]_vars

----------------------------------------------------------------------------
(* _filter_paragraphs called on its own *)

FilterAlphabet == {"a", "A", ".", "\n"}
StringsUpTo(n) == UNION {[1..k -> FilterAlphabet] : k \in 0..n}

FilterTokens == {<<>>, <<"a">>, <<"A">>, <<".">>, <<"a", ".">>, <<"A", "a">>}
TokenLists == UNION {[1..k -> {Str(tok) : tok \in FilterTokens}] : k \in 0..MaxToks}

FilterContains ==
    {None} \cup {Str(tok) : tok \in FilterTokens} \cup {List(toks) : toks \in TokenLists}

\* One paragraph of every spelling, alone or followed by the paragraph "a"
FilterParagraphLists ==
    {List(<<>>)}
      \cup {List(<<Str(p)>>) : p \in StringsUpTo(MaxParLen)}
      \cup {List(<<Str(p), Str(<<"a">>)>>) : p \in StringsUpTo(MaxParLen)}

InitFilter ==
    /\ fp_paragraphs \in FilterParagraphLists
    /\ fp_contains \in FilterContains
    /\ fp_result = None
    /\ CollIdle
    /\ LkIdle

\* The call _filter_paragraphs(fp_paragraphs, contains=fp_contains)
FilterCall ==
    /\ fp_result = None
    /\ fp_result' = FilterParagraphs(fp_paragraphs, fp_contains)
    /\ UNCHANGED <<fp_paragraphs, fp_contains, collVars, lkVars>>

NextFilter == FilterCall

SpecFilter == InitFilter /\ [][NextFilter]_vars

----------------------------------------------------------------------------
(* The lookup functions: with closing(connect()) as conn, with               *)
(* closing(conn.cursor()) as cur, cur.execute(...).fetchall(), then the      *)
(* result built from the rows.                                               *)

LookupFns ==
    { "get_paragraphs_for_text_ref_ids", "get_text_ref_ids_for_pmids",
      "get_pmids_for_text_ref_ids", "get_text_ref_ids_for_agent_text",
      "get_entrez_pmids_for_hgnc", "get_entrez_pmids_for_uniprot",
      "get_entrez_pmids", "get_taxon_id_for_uniprot" }

InitLookup ==
    /\ lk_fn \in LookupFns
    /\ lk_avail \in 0..MaxAvail
    /\ lk_pc = "connect"
    /\ lk_conn = "none"
    /\ lk_cur = "none"
    /\ lk_execs = 0
    /\ lk_fetched = 0
    /\ lk_exc = "none"
    /\ lk_thrown = "none"
    /\ lk_closed = <<>>
    /\ lk_result = "none"
    /\ CollIdle
    /\ FpIdle

\* sqlite3.connect(INDRA_DB_LITE_LOCATION): a connection, or a storage error
\* with nothing opened
LkConnect ==
    /\ lk_pc = "connect"
    /\ \/ /\ lk_conn' = "open"
          /\ lk_pc' = "cursor"
          /\ UNCHANGED <<lk_exc, lk_thrown>>
       \/ /\ lk_exc' = "error in connect"
          /\ lk_thrown' = "error in connect"
          /\ lk_pc' = "raised"
          /\ UNCHANGED lk_conn
    /\ UNCHANGED <<lk_fn, lk_cur, lk_execs, lk_avail, lk_fetched, lk_closed,
                   lk_result, collVars, fpVars>>

\* conn.cursor(): a cursor, or an error that leaves the outer with block
LkCursor ==
    /\ lk_pc = "cursor"
    /\ \/ /\ lk_cur' = "open"
          /\ lk_pc' = "execute"
          /\ UNCHANGED <<lk_exc, lk_thrown>>
       \/ /\ lk_exc' = "error in cursor"
          /\ lk_thrown' = "error in cursor"
          /\ lk_pc' = "close_conn"
          /\ UNCHANGED lk_cur
    /\ UNCHANGED <<lk_fn, lk_conn, lk_execs, lk_avail, lk_fetched, lk_closed,
                   lk_result, collVars, fpVars>>

\* cur.execute(query, params): once; it returns the cursor or raises
LkExecute ==
    /\ lk_pc = "execute"
    /\ lk_execs' = lk_execs + 1
    /\ \/ /\ lk_pc' = "fetchall"
          /\ UNCHANGED <<lk_exc, lk_thrown>>
       \/ /\ lk_exc' = "error in execute"
          /\ lk_thrown' = "error in execute"
          /\ lk_pc' = "close_cur"
    /\ UNCHANGED <<lk_fn, lk_conn, lk_cur, lk_avail, lk_fetched, lk_closed,
                   lk_result, collVars, fpVars>>

\* .fetchall(), inside both with blocks: every row is read, or it raises
LkFetchall ==
    /\ lk_pc = "fetchall"
    /\ \/ /\ lk_fetched' = lk_avail
          /\ UNCHANGED <<lk_exc, lk_thrown>>
       \/ /\ lk_exc' = "error in fetchall"
          /\ lk_thrown' = "error in fetchall"
          /\ UNCHANGED lk_fetched
    /\ lk_pc' = "close_cur"
    /\ UNCHANGED <<lk_fn, lk_conn, lk_cur, lk_execs, lk_avail, lk_closed,
                   lk_result, collVars, fpVars>>

\* Leaving the inner with block: closing.__exit__ closes the cursor and lets
\* an exception in flight through
LkCloseCursor ==
    /\ lk_pc = "close_cur"
    /\ lk_cur' = "closed"
    /\ lk_closed' = Append(lk_closed, "cursor")
    /\ lk_pc' = "close_conn"
    /\ UNCHANGED <<lk_fn, lk_conn, lk_execs, lk_avail, lk_fetched, lk_exc,
                   lk_thrown, lk_result, collVars, fpVars>>

\* Leak: the outer with block left without closing
LkCloseConnectionSkipped ==
    /\ lk_pc = "close_conn"
    /\ lk_pc' = IF lk_exc = "none" THEN "build" ELSE "raised"
    /\ UNCHANGED <<lk_fn, lk_conn, lk_cur, lk_execs, lk_avail, lk_fetched, lk_exc,
                   lk_thrown, lk_closed, lk_result, collVars, fpVars>>

\* Leaving the outer with block: the connection is closed; an exception in
\* flight goes on to the caller
LkCloseConnection ==
    /\ lk_pc = "close_conn"
    /\ lk_conn' = "closed"
    /\ lk_closed' = Append(lk_closed, "connection")
    /\ lk_pc' = IF lk_exc = "none" THEN "build" ELSE "raised"
    /\ UNCHANGED <<lk_fn, lk_cur, lk_execs, lk_avail, lk_fetched, lk_exc,
                   lk_thrown, lk_result, collVars, fpVars>>

\* After the with blocks the result is built from the rows read;
\* get_taxon_id_for_uniprot takes res[0][0], an IndexError when no row came
LkBuildResult ==
    /\ lk_pc = "build"
    /\ \/ /\ lk_fn = "get_taxon_id_for_uniprot" /\ lk_fetched = 0
          /\ lk_exc' = "IndexError"
          /\ lk_thrown' = "IndexError"
          /\ lk_pc' = "raised"
          /\ UNCHANGED lk_result
       \/ /\ ~(lk_fn = "get_taxon_id_for_uniprot" /\ lk_fetched = 0)
          /\ lk_result' = [rows |-> lk_fetched]
          /\ lk_pc' = "returned"
          /\ UNCHANGED <<lk_exc, lk_thrown>>
    /\ UNCHANGED <<lk_fn, lk_conn, lk_cur, lk_execs, lk_avail, lk_fetched,
                   lk_closed, collVars, fpVars>>

NextLookup ==
    \/ LkConnect
    \/ LkCursor
    \/ LkExecute
    \/ LkFetchall
    \/ LkCloseCursor
    \/ LkCloseConnection
    \/ LkBuildResult

SpecLookup == InitLookup /\ [][NextLookup]_vars

----------------------------------------------------------------------------
(* Vocabulary of the properties *)

Mappings == <<fulltexts, abstracts, titles>>
MappingsAfter == <<fulltexts', abstracts', titles'>>
StoredValues == {Mappings[k][d] : <<k, d>> \in {x \in (1..3) \X Ids : x[2] \in DOMAIN Mappings[x[1]]}}

\* A to_plaintexts call that runs the body and returns
FlattensNow ==
    /\ call'.name = "to_plaintexts"
    /\ call'.outcome = "return"
    /\ ~processed

\* tok stands in p as a whole word: an occurrence with no word character
\* right before it and none right after it
WholeWord(tok, p) ==
    \E i \in 1..(Len(p) + 1) :
        /\ i + Len(tok) - 1 <= Len(p)
        /\ \A j \in 1..Len(tok) : p[i + j - 1] = tok[j]
        /\ i = 1 \/ p[i - 1] \notin WordChars
        /\ i + Len(tok) > Len(p) \/ p[i + Len(tok)] \notin WordChars

\* The tokens a supplied contains argument stands for
TokensOf(contains) ==
    IF contains.t = "str" THEN {contains.v}
    ELSE {contains.v[i].v : i \in 1..Len(contains.v)}

\* The paragraphs of a raw list that the filter lets through
Survivors(value, contains) ==
    SelectSeq(value.v, LAMBDA p : ReSearch(BuildPattern(contains), p.v))

\* Each paragraph followed by a newline, in order
RECURSIVE EachThenNewline(_)
EachThenNewline(ps) ==
    IF ps = <<>> THEN <<>>
    ELSE ps[1].v \o <<"\n">> \o EachThenNewline(Tail(ps))

RECURSIVE TotalLen(_)
TotalLen(ps) == IF ps = <<>> THEN 0 ELSE Len(ps[1].v) + TotalLen(Tail(ps))

\* Characters of the joined text: the paragraphs, a newline between two
\* neighbours, and the trailing newline
JoinedLength(ps) == IF ps = <<>> THEN 1 ELSE TotalLen(ps) + (Len(ps) - 1) + 1

----------------------------------------------------------------------------
(* Properties of TextContent, checked under Spec *)

\* C1: to_plaintexts is idempotent.  A call that returns from the body sets
\* processed, and every to_plaintexts call made while processed is true returns
\* and leaves fulltexts, abstracts, titles and processed as they are, whatever
\* its token argument: two calls leave what the first one left.  (A call that
\* raises part-way sets no flag; what it leaves behind is the subject of C10.)
C1_Idempotent ==
    [][ call'.name = "to_plaintexts" =>
          /\ processed => /\ call'.outcome = "return"
                          /\ UNCHANGED <<fulltexts, abstracts, titles, processed>>
          /\ (~processed /\ call'.outcome = "return") => processed' ]_vars

\* A second call with no tokens after a first call with the token a: the full
\* text still holds only the paragraph the first call kept.
C1_Witness ==
    /\ processed
    /\ call.name = "to_plaintexts"
    /\ call.contains = None
    /\ 1 \in DOMAIN fulltexts
    /\ fulltexts[1] = Str(<<"a", " ", "b", "\n">>)

\* C2: as long as no call has raised, the collection is raw with processed
\* false (every value a paragraph list) or flattened with processed true (every
\* value one string); processed starts false and never goes back to false.
C2_RawOrFlattened ==
    /\ [](nfaults = 0 =>
            \/ ~processed /\ \A v \in StoredValues : v.t = "list"
            \/ processed /\ \A v \in StoredValues : v.t = "str")
    /\ [](pc = "init" => ~processed)
    /\ [][processed => processed']_vars

C2_Witness ==
    /\ processed
    /\ nfaults = 0
    /\ call.name = "flatten"
    /\ DOMAIN fulltexts # {}
    /\ DOMAIN titles # {}

\* C4: a to_plaintexts call on a raw collection keeps, in each mapping, exactly
\* the ids that were there and whose filtered text is longer than one
\* character; an id none of whose paragraphs survives is gone, no id is added,
\* and no mapping ever holds an empty string or a lone newline.
C4_DropsEmpty ==
    /\ [](\A v \in StoredValues : v.t = "str" => v.v \notin {<<>>, <<"\n">>})
    /\ [][ FlattensNow =>
             \A k \in 1..3 :
                LET before == Mappings[k]
                    after == MappingsAfter[k]
                    c == call'.contains
                IN /\ DOMAIN after =
                        {d \in DOMAIN before : JoinedLength(Survivors(before[d], c)) > 1}
                   /\ DOMAIN after \subseteq DOMAIN before
                   /\ \A d \in DOMAIN before :
                        Survivors(before[d], c) = <<>> => d \notin DOMAIN after ]_vars

\* After a call with the token a: the abstract ["b"] of document 1 is gone, its
\* full text ["a b", "ab"] is kept.
C4_Witness ==
    /\ processed
    /\ call.name = "to_plaintexts"
    /\ call.contains = Str(<<"a">>)
    /\ seen[<<1, "abstract">>] > 0
    /\ 1 \notin DOMAIN abstracts
    /\ 1 \in DOMAIN fulltexts

\* C5: flatten returns a mapping over the ids of the three mappings together,
\* with the title's value where there is a title, else the abstract's, else
\* the full text's, raw or flattened alike, and leaves the collection as it is.
C5_FlattenPrecedence ==
    [][ call'.name = "flatten" =>
          /\ UNCHANGED <<fulltexts, abstracts, titles, processed>>
          /\ call'.outcome = "return"
          /\ DOMAIN call'.ret = DOMAIN fulltexts \cup DOMAIN abstracts \cup DOMAIN titles
          /\ \A d \in DOMAIN call'.ret :
                call'.ret[d] = IF d \in DOMAIN titles THEN titles[d]
                               ELSE IF d \in DOMAIN abstracts THEN abstracts[d]
                               ELSE fulltexts[d] ]_vars

\* Flattened state, document 1 with three different texts: the title's is returned.
C5_Witness ==
    /\ call.name = "flatten"
    /\ processed
    /\ 1 \in DOMAIN fulltexts \cap DOMAIN abstracts \cap DOMAIN titles
    /\ titles[1] # abstracts[1]
    /\ titles[1] # fulltexts[1]
    /\ call.ret[1] = titles[1]

\* A row of a recognised type is stored under its id, replacing what was there
LaterRowWins ==
    [][ call'.name = "row" =>
          LET id == call'.ret[1]
              ty == call'.ret[2]
              value == JsonLoads(call'.ret[3])
          IN /\ ty = "fulltext" => id \in DOMAIN fulltexts' /\ fulltexts'[id] = value
             /\ ty = "abstract" => id \in DOMAIN abstracts' /\ abstracts'[id] = value
             /\ ty = "title" => id \in DOMAIN titles' /\ titles'[id] = value ]_vars

\* __len__ called on the collection as __init__ left it
SizeAfterConstruction == call.name = "__len__" /\ ~processed /\ nfaults = 0

\* C6 as stated: the size right after construction is the number of rows
\* passed in minus the number of rows that collide with an earlier row on the
\* same (id, type) pair.
C6_SizeAllRows ==
    SizeAfterConstruction =>
        call.ret = RowsOf(seen, Pairs) - CollisionsOf(seen, Pairs)

\* C6 amended: the size right after construction is the number of rows of a
\* recognised text type (fulltext, abstract, title) minus the number of those
\* rows that collide with an earlier row on the same (id, type) pair; for a
\* colliding pair the value stored is that of the later row.
C6_SizeKnownRows ==
    /\ [](SizeAfterConstruction =>
            call.ret = RowsOf(seen, Ids \X KnownTypes)
                         - CollisionsOf(seen, Ids \X KnownTypes))
    /\ LaterRowWins

\* Three rows, two of them on the same pair and one of an unrecognised type
C6_Witness ==
    /\ SizeAfterConstruction
    /\ seen[<<1, "title">>] = 2
    /\ seen[<<1, "figure">>] = 1
    /\ call.ret = 1

\* C8: the text to_plaintexts stores for a retained document is its surviving
\* paragraphs in their order, each followed by one newline (joined by a
\* newline, one trailing newline); with the token argument omitted it is the
\* whole raw paragraph list so joined.
C8_JoinedText ==
    [][ FlattensNow =>
          \A k \in 1..3 : \A d \in DOMAIN MappingsAfter[k] :
             /\ MappingsAfter[k][d].t = "str"
             /\ MappingsAfter[k][d].v =
                   EachThenNewline(Survivors(Mappings[k][d], call'.contains))
             /\ call'.contains = None =>
                   MappingsAfter[k][d].v = EachThenNewline(Mappings[k][d].v) ]_vars

\* No tokens: both paragraphs of ["a b", "ab"], in order
C8_Witness ==
    /\ processed
    /\ call.name = "to_plaintexts"
    /\ call.contains = None
    /\ 2 \in DOMAIN abstracts
    /\ abstracts[2] = Str(<<"a", " ", "b", "\n", "a", "b", "\n">>)

\* C9: with a token collection supplied, the empty one included, only the
\* paragraphs holding one of the tokens as a whole word survive, so the text
\* stored is made of those paragraphs alone and a document with none is gone.
C9_SuppliedTokensFilter ==
    [][ (FlattensNow /\ call'.contains # None) =>
          \A k \in 1..3 :
             LET before == Mappings[k]
                 after == MappingsAfter[k]
                 toks == TokensOf(call'.contains)
                 whole(d) == SelectSeq(before[d].v,
                                LAMBDA p : \E tok \in toks : WholeWord(tok, p.v))
             IN /\ \A d \in DOMAIN after : after[d].v = EachThenNewline(whole(d))
                /\ \A d \in DOMAIN before : whole(d) = <<>> => d \notin DOMAIN after ]_vars

\* C10: to_plaintexts is all-or-nothing: while processed is false, a call
\* having raised or not, every value is still a raw paragraph list.
C10_AllOrNothing ==
    ~processed => \A v \in StoredValues : v.t = "list"

----------------------------------------------------------------------------
(* Properties of _filter_paragraphs, checked under SpecFilter *)

\* C3: with a non-empty token collection (one string standing for the
\* collection of it alone), _filter_paragraphs keeps a paragraph if and only if
\* one of the tokens stands in it as a whole word, letter case and every
\* character of the token taken as they are: the result is exactly the kept
\* paragraphs, each followed by a newline (a lone newline when none is kept).
C3_WholeWordMatch ==
    (fp_result # None /\ fp_contains # None /\ TokensOf(fp_contains) # {}) =>
        LET toks == TokensOf(fp_contains)
            kept == SelectSeq(fp_paragraphs.v,
                       LAMBDA p : \E tok \in toks : WholeWord(tok, p.v))
        IN fp_result = Str(IF kept = <<>> THEN <<"\n">> ELSE EachThenNewline(kept))

\* The token a. kept for the paragraph "\na." and, in the same call, nothing
\* else: the second paragraph "a" does not hold it.
C3_Witness ==
    /\ fp_contains = List(<<Str(<<"A", "a">>), Str(<<"a", ".">>)>>)
    /\ fp_paragraphs = List(<<Str(<<"\n", "a", ".">>), Str(<<"a">>)>>)
    /\ fp_result = Str(<<"\n", "a", ".", "\n">>)

----------------------------------------------------------------------------
(* Properties of the lookup functions, checked under SpecLookup *)

\* C7: when a lookup call has exited, by return or by exception, no connection
\* and no cursor is open; what was opened was closed, the cursor before the
\* connection; the rows were all read before the cursor was closed; the query
\* ran at most once, and exactly once when it returned or when execute raised;
\* and the exception the caller gets is the one that was raised.
C7_ScopedRelease ==
    /\ lk_pc \in {"returned", "raised"} =>
          /\ lk_conn # "open"
          /\ lk_cur # "open"
          /\ lk_closed = (IF lk_cur = "closed" THEN <<"cursor">> ELSE <<>>)
                           \o (IF lk_conn = "closed" THEN <<"connection">> ELSE <<>>)
          /\ lk_thrown # "error in connect" => lk_conn = "closed"
          /\ lk_thrown \notin {"error in connect", "error in cursor"} => lk_cur = "closed"
          /\ lk_execs <= 1
          /\ lk_thrown = "error in execute" => lk_execs = 1
          /\ lk_exc = lk_thrown
          /\ lk_pc = "raised" <=> lk_exc # "none"
          /\ lk_pc = "returned" => lk_execs = 1 /\ lk_result = [rows |-> lk_avail]
    /\ (lk_cur = "closed" /\ lk_exc = "none") => lk_fetched = lk_avail

\* get_paragraphs_for_text_ref_ids whose query raised: both closed, in order
C7_Witness ==
    /\ lk_fn = "get_paragraphs_for_text_ref_ids"
    /\ lk_pc = "raised"
    /\ lk_thrown = "error in execute"
    /\ lk_closed = <<"cursor", "connection">>

====
